---- MODULE Spec2Model ----
(***************************************************************************)
(* find-git-dirs (src/src/main.rs): one scanner thread per root walks the  *)
(* tree with parallel walker workers and sends Msg values over a bounded   *)
(* channel; main's event loop drains the channel into App, draws, polls    *)
(* the keyboard, and on exit finalizes the live output writer or emits the *)
(* results.                                                                *)
(*                                                                         *)
(* A path is the sequence of the characters of its display string.  An     *)
(* Option is a sequence of length 0 (None) or 1 (Some).                    *)
(***************************************************************************)
EXTENDS Integers, Sequences, FiniteSets, TLC

\* ------------------------------------------------------------------ bounds

\* Capacity of the event channel in the model (bounded::<Msg>(1024) in main).
ChanCap == 2

\* Walker workers per root in the two-root scenario (build_parallel threads).
NumWorkers == 2

\* The clock advances at most this many throttle windows.
MaxTicks == 1

\* Matches beyond the recent buffer's capacity in the long single-root tree.
ExtraMatches == 2

\* Longest sequence of matches given to the two JSON serializers.
MaxMatches == 2

\* Longest path given to escape_json_path.
MaxPathLen == 3

\* Paths the user can name on the command line: 1..MaxPathId, numbered in
\* the order of PathBuf's Ord; also the longest list of such paths.
MaxPathId == 2

\* ------------------------------------------------------- program constants

\* App::push_recent keeps at most this many paths.
RecentCap == 12

\* scan_root: Duration::from_millis(120).
Throttle == 120

\* ------------------------------------------------------------------- data

Quote == "\""

Backslash == "\\"

Newline == "\n"

\* Characters a path's display string is made of in the model.
Chars == <<"a", "b", Quote, Backslash, Newline>>

\* The i-th two-character path, i in 1..Len(Chars)^2, all distinct.
PathNo(i) == <<Chars[((i - 1) \div Len(Chars)) + 1], Chars[((i - 1) % Len(Chars)) + 1]>>

\* ASCII lower-casing of the file names that occur in the model.
LowerAscii(name) ==
  CASE name = ".GIT" -> ".git"
    [] name = ".Git" -> ".git"
    [] OTHER -> name

\* One result of the traversal: an entry (ok) or an error.
\*   is_dir, name : the entry's file type and file name;
\*   path         : entry.path();
\*   canon        : <<c>> when fs::canonicalize succeeds with c, <<>> when it fails.
OkEntry(isdir, name, path, canon) ==
  [ok |-> TRUE, is_dir |-> isdir, name |-> name, path |-> path, canon |-> canon]

ErrEntry == [ok |-> FALSE, is_dir |-> FALSE, name |-> "", path |-> <<>>, canon |-> <<>>]

NoEntry == [ok |-> FALSE, is_dir |-> FALSE, name |-> "-", path |-> <<>>, canon |-> <<>>]

\* is_git_dir: a directory whose file name is ".git", ignoring ASCII case.
IsGitDir(e) == e.is_dir /\ LowerAscii(e.name) = ".git"

\* canonical_dir(..).unwrap_or_else(..): the canonical path, else the raw path.
CanonicalDir(e) == IF e.canon # <<>> THEN e.canon[1] ELSE e.path

\* Two overlapping roots: root 2 reaches root 1's repository through a link
\* (same canonical path) and has one repository of its own, whose name holds a
\* newline and cannot be canonicalized.
OverlapTrees ==
  << << OkEntry(TRUE, ".git", <<"a", "b">>, << <<"a", "b">> >>) >>,
     << OkEntry(TRUE, ".GIT", <<"b", "a">>, << <<"a", "b">> >>),
        OkEntry(TRUE, ".git", <<"b", Newline>>, <<>>) >> >>

\* One root walked by several workers: a repository, and the same repository
\* once more through a link.
ParallelTree ==
  << << OkEntry(TRUE, ".git", <<"a", Quote>>, << <<"a", Quote>> >>),
        OkEntry(TRUE, ".Git", <<"a", "b">>, << <<"a", Quote>> >>) >> >>

\* One root holding RecentCap + ExtraMatches repositories and one plain file
\* named ".git" (not a directory).
LongTree ==
  << [i \in 1..(RecentCap + ExtraMatches + 1) |->
        IF i = 2 THEN OkEntry(FALSE, ".git", <<"a">>, << <<"a">> >>)
        ELSE OkEntry(TRUE, ".git", PathNo(i), << PathNo(i) >>)] >>

\* One root with no repository at all: a directory, an unreadable entry, a file.
EmptyTree ==
  << << OkEntry(TRUE, "src", <<"a">>, << <<"a">> >>), ErrEntry,
        OkEntry(FALSE, "x", <<"a", "a">>, << <<"a", "a">> >>) >> >>

\* One root walked by several workers: a repository that cannot be
\* canonicalized, an unreadable entry, a file.
ErrorTree ==
  << << OkEntry(TRUE, ".git", <<"a", Backslash>>, <<>>), ErrEntry,
        OkEntry(FALSE, "x", <<"a", "a">>, << <<"a", "a">> >>) >> >>

\* Runs of the program: the normalized roots (sorted, without duplicates) with
\* their trees, the walker threads per root, the number of throttle windows
\* the run lasts at most (0: the scan is over within the first window), and
\* the output options <<output is Some, json_output>>.
OverlapRun ==
  [paths |-> << <<"a">>, <<"b">> >>, trees |-> OverlapTrees, nworkers |-> 1,
   ticks |-> 0, outs |-> {<<TRUE, TRUE>>, <<FALSE, TRUE>>}]

ParallelRun ==
  [paths |-> << <<"a">> >>, trees |-> ParallelTree, nworkers |-> NumWorkers,
   ticks |-> MaxTicks, outs |-> {<<TRUE, FALSE>>}]

LongRun ==
  [paths |-> << <<"a">> >>, trees |-> LongTree, nworkers |-> 1,
   ticks |-> MaxTicks, outs |-> {<<TRUE, TRUE>>}]

EmptyRun ==
  [paths |-> << <<"a">> >>, trees |-> EmptyTree, nworkers |-> 1,
   ticks |-> MaxTicks, outs |-> BOOLEAN \X BOOLEAN]

ErrorRun ==
  [paths |-> << <<"a">> >>, trees |-> ErrorTree, nworkers |-> NumWorkers,
   ticks |-> MaxTicks, outs |-> {<<TRUE, TRUE>>}]

Scenarios == {OverlapRun, ParallelRun, LongRun, EmptyRun, ErrorRun}

\* ------------------------------------------------------------------ state

VARIABLES
  tree,          \* per root: the results its traversal yields (fixed input)
  nworkers,      \* walker threads per root (fixed input)
  maxclock,      \* the clock stops advancing at this many milliseconds
  output,        \* Args.output is Some (fixed input)
  json_output,   \* !plain || json (fixed input)
  clock,         \* Instant::now(), in milliseconds
  chan,          \* the bounded channel: messages sent and not yet received
  rpc,           \* per root: position of scan_root
  pending,       \* per root: results the traversal has not yet handed out
  last_progress, \* per root: the Mutex<Instant> of scan_root
  wpc,           \* per root and worker: position in the walker closure
  went,          \* per root and worker: the result being handled
  wnow,          \* per root and worker: the closure's local `now`
  mainpc,        \* position of main
  roots,         \* App.roots: scanned, found, done, current of each root
  recent,        \* App.recent
  all_found,     \* App.all_found
  seen_found,    \* App.seen_found
  live,          \* live_output: the LiveOutput (kind "none": no writer)
  stdout,        \* bytes emit_results wrote to standard output
  exit_kind,     \* how main returned: "running", "ok" or "err"
  finalize_calls,\* number of calls of LiveOutput::finalize so far
  emit_calls,    \* number of calls of emit_results so far
  found_log,     \* the Found messages received so far, in order
  sent,          \* per root: the messages its scanner has enqueued, in order
  recvd,         \* per root: the messages the drain loop has received, in order
  lock_holder,   \* per root: the worker holding the last_progress mutex (0: free)
  progress_at,   \* per root: the time its last Progress was enqueued (-1: none yet)
  arg,           \* the arguments of the function a function-level run applies
  res            \* that function's result ("none": not yet applied)

scanvars == <<chan, rpc, pending, last_progress, wpc, went, wnow, sent, lock_holder,
              progress_at>>

appvars == <<roots, recent, all_found, seen_found>>

inputs == <<tree, nworkers, maxclock, output, json_output, arg, res>>

vars == <<tree, nworkers, maxclock, output, json_output, clock, chan, rpc, pending, last_progress,
          wpc, went, wnow, mainpc, roots, recent, all_found, seen_found, live, stdout,
          exit_kind, finalize_calls, emit_calls, found_log, sent, recvd, lock_holder,
          progress_at, arg, res>>

RootIdx == 1..Len(tree)

Workers == 1..nworkers

\* RootState::new (App::new builds one per root)
RootStateNew(path) ==
  [path |-> path, scanned |-> 0, found |-> 0, done |-> FALSE, current |-> <<>>]

NoLive == [kind |-> "none", first |-> FALSE, buf |-> <<>>, file |-> <<>>]

InitWith(S) ==
  /\ \E sc \in S :
       /\ tree = sc.trees
       /\ nworkers = sc.nworkers
       /\ maxclock = sc.ticks * Throttle
       /\ pending = sc.trees
       /\ rpc = [r \in 1..Len(sc.trees) |-> "unspawned"]
       /\ last_progress = [r \in 1..Len(sc.trees) |-> 0]
       /\ wpc = [r \in 1..Len(sc.trees) |-> [w \in 1..sc.nworkers |-> "idle"]]
       /\ went = [r \in 1..Len(sc.trees) |-> [w \in 1..sc.nworkers |-> NoEntry]]
       /\ wnow = [r \in 1..Len(sc.trees) |-> [w \in 1..sc.nworkers |-> 0]]
       /\ roots = [r \in 1..Len(sc.trees) |-> RootStateNew(sc.paths[r])]
       /\ sent = [r \in 1..Len(sc.trees) |-> <<>>]
       /\ recvd = [r \in 1..Len(sc.trees) |-> <<>>]
       /\ lock_holder = [r \in 1..Len(sc.trees) |-> 0]
       /\ progress_at = [r \in 1..Len(sc.trees) |-> -1]
       /\ \E o \in sc.outs : output = o[1] /\ json_output = o[2]
  /\ clock = 0
  /\ chan = <<>>
  /\ mainpc = "spawn"
  /\ recent = <<>>
  /\ all_found = <<>>
  /\ seen_found = {}
  /\ live = NoLive
  /\ stdout = <<>>
  /\ exit_kind = "running"
  /\ finalize_calls = 0
  /\ emit_calls = 0
  /\ found_log = <<>>

\* A run of the whole program applies no function on its own.
NoCall == arg = <<>> /\ res = "none"

Init == InitWith(Scenarios) /\ NoCall

\* ---------------------------------------------------------------- messages

\* A spawn loop that numbers the scanners from the end of the list.
ScanRootIdxReversed(r) == Len(tree) + 1 - r

\* spawn_scanners, line 452: enumerate() hands the scanner of the r-th root
\* its position in the list as root_idx (positions count from 1 here, from 0
\* in the program).
ScanRootIdx(r) == r

MsgScanned(r) == [type |-> "Scanned", root_idx |-> ScanRootIdx(r), path |-> <<>>]

MsgProgress(r, p) == [type |-> "Progress", root_idx |-> ScanRootIdx(r), path |-> p]

MsgFound(r, p) == [type |-> "Found", root_idx |-> ScanRootIdx(r), path |-> p]

MsgDone(r) == [type |-> "Done", root_idx |-> ScanRootIdx(r), path |-> <<>>]

\* Threads that outlive main.
AliveForever == TRUE

\* The process is alive: threads run until main returns.
Alive == mainpc # "exited"

\* A channel without a capacity: a send always completes.
CanSendUnbounded == Alive

\* A blocking send on the bounded channel can complete.
CanSend == Alive /\ Len(chan) < ChanCap

\* A channel that puts a new message in front of the queued ones.
EnqueueFront(c, m) == <<m>> \o c

\* The channel is a queue: a sent message goes behind the queued ones.
Enqueue(c, m) == Append(c, m)

\* tx.send(m) by root r's scanner completes.
Send(r, m) ==
  /\ chan' = Enqueue(chan, m)
  /\ sent' = [sent EXCEPT ![r] = Append(@, m)]

\* ---------------------------------------------------------------- scanners

\* The clock advances (by one throttle window at a time).
Tick ==
  /\ Alive
  /\ clock + Throttle <= maxclock
  /\ clock' = clock + Throttle
  /\ UNCHANGED <<inputs, scanvars, mainpc, appvars, live, stdout, exit_kind,
                 finalize_calls, emit_calls, found_log, recvd>>

mainside == <<mainpc, roots, recent, all_found, seen_found, live, stdout, exit_kind,
              finalize_calls, emit_calls, found_log, recvd>>

\* scan_root, lines 469-474: the first Progress message names the root itself;
\* then last_progress = Instant::now().
RootSendStart(r) ==
  /\ rpc[r] = "start"
  /\ CanSend
  /\ Send(r, MsgProgress(r, roots[r].path))
  /\ progress_at' = [progress_at EXCEPT ![r] = clock]
  /\ last_progress' = [last_progress EXCEPT ![r] = clock]
  /\ rpc' = [rpc EXCEPT ![r] = "walk"]
  /\ UNCHANGED <<inputs, clock, pending, wpc, went, wnow, lock_holder, mainside>>

\* A walker worker receives the next result of the traversal.
WorkerTake(r, w) ==
  /\ rpc[r] = "walk"
  /\ Alive
  /\ wpc[r][w] = "idle"
  /\ pending[r] # <<>>
  /\ went' = [went EXCEPT ![r][w] = Head(pending[r])]
  /\ pending' = [pending EXCEPT ![r] = Tail(pending[r])]
  /\ wpc' = [wpc EXCEPT ![r][w] = "send_scanned"]
  /\ UNCHANGED <<inputs, clock, chan, rpc, last_progress, wnow, sent, lock_holder, progress_at,
                 mainside>>

\* A closure that returns WalkState::Quit on an error: the walk is abandoned.
AfterErrQuit(r, w) ==
  /\ wpc' = [wpc EXCEPT ![r][w] = "idle"]
  /\ went' = [went EXCEPT ![r][w] = NoEntry]
  /\ pending' = [pending EXCEPT ![r] = <<>>]

\* Line 515 after the Err arm: WalkState::Continue, the worker takes the next result.
AfterErrScanned(r, w) ==
  /\ wpc' = [wpc EXCEPT ![r][w] = "idle"]
  /\ went' = [went EXCEPT ![r][w] = NoEntry]
  /\ UNCHANGED pending

\* Lines 482-483 and 512: both arms send Scanned; the Ok arm then reads
\* now = Instant::now(), the Err arm continues with the next result.
WorkerSendScanned(r, w) ==
  /\ wpc[r][w] = "send_scanned"
  /\ CanSend
  /\ Send(r, MsgScanned(r))
  /\ IF went[r][w].ok
       THEN /\ wpc' = [wpc EXCEPT ![r][w] = "lock"]
            /\ wnow' = [wnow EXCEPT ![r][w] = clock]
            /\ UNCHANGED <<went, pending>>
       ELSE AfterErrScanned(r, w) /\ UNCHANGED wnow
  /\ UNCHANGED <<inputs, clock, rpc, last_progress, lock_holder, progress_at, mainside>>

\* A throttle that lets every worker report.
ShouldReportAlways(now, last) == TRUE

\* Instant::duration_since saturates at zero.
DurationSince(a, b) == IF a >= b THEN a - b ELSE 0

\* Lines 486-491: whether to report, given now and *last.
ShouldReport(now, last) == DurationSince(now, last) >= Throttle

\* The closure's position after the throttle block and the optional Progress.
AfterProgress(e) == IF IsGitDir(e) THEN "send_found" ELSE "idle"

\* A closure that keeps the mutex guard until it returns.
LockKeptAfterBlock(w) == w

\* Line 495: the guard `last` is dropped at the end of the should_report block.
LockAfterBlock(w) == 0

\* Lines 484-495: the critical section on last_progress.
WorkerThrottle(r, w) ==
  /\ wpc[r][w] = "lock"
  /\ Alive
  /\ lock_holder[r] = 0
  /\ lock_holder' = [lock_holder EXCEPT ![r] = LockAfterBlock(w)]
  /\ IF ShouldReport(wnow[r][w], last_progress[r])
       THEN /\ last_progress' = [last_progress EXCEPT ![r] = wnow[r][w]]
            /\ wpc' = [wpc EXCEPT ![r][w] = "send_progress"]
            /\ UNCHANGED went
       ELSE /\ UNCHANGED last_progress
            /\ wpc' = [wpc EXCEPT ![r][w] = AfterProgress(went[r][w])]
            /\ went' = [went EXCEPT ![r][w] =
                          IF IsGitDir(went[r][w]) THEN went[r][w] ELSE NoEntry]
  /\ wnow' = [wnow EXCEPT ![r][w] = 0]
  /\ UNCHANGED <<inputs, clock, chan, rpc, pending, sent, progress_at, mainside>>

\* Lines 498-503: the throttled Progress message.
WorkerSendProgress(r, w) ==
  /\ wpc[r][w] = "send_progress"
  /\ CanSend
  /\ Send(r, MsgProgress(r, went[r][w].path))
  /\ progress_at' = [progress_at EXCEPT ![r] = clock]
  /\ wpc' = [wpc EXCEPT ![r][w] = AfterProgress(went[r][w])]
  /\ went' = [went EXCEPT ![r][w] = IF IsGitDir(went[r][w]) THEN went[r][w] ELSE NoEntry]
  /\ UNCHANGED <<inputs, clock, rpc, pending, last_progress, wnow, lock_holder, mainside>>

\* Lines 505-508: the Found message carries the canonical path.
WorkerSendFound(r, w) ==
  /\ wpc[r][w] = "send_found"
  /\ CanSend
  /\ Send(r, MsgFound(r, CanonicalDir(went[r][w])))
  /\ wpc' = [wpc EXCEPT ![r][w] = "idle"]
  /\ went' = [went EXCEPT ![r][w] = NoEntry]
  /\ UNCHANGED <<inputs, clock, rpc, pending, last_progress, wnow, lock_holder, progress_at,
                 mainside>>

\* A scan_root that sends Done as soon as the traversal has handed out its
\* last result, without waiting for the workers.
WalkHandedOut(r) == pending[r] = <<>>

\* Line 476: build_parallel().run(..) returns when no result is left and
\* every worker's closure has returned.
WalkReturned(r) == pending[r] = <<>> /\ \A w \in Workers : wpc[r][w] = "idle"

\* Line 519: run() has returned; send Done.
RootSendDone(r) ==
  /\ rpc[r] = "walk"
  /\ WalkReturned(r)
  /\ CanSend
  /\ Send(r, MsgDone(r))
  /\ rpc' = [rpc EXCEPT ![r] = "finished"]
  /\ UNCHANGED <<inputs, clock, pending, last_progress, wpc, went, wnow, lock_holder,
                 progress_at, mainside>>

\* ------------------------------------------------------------ output bytes

\* str::replace(c, repl): every occurrence of the character c becomes repl.
RECURSIVE Replace(_, _, _)
Replace(s, c, repl) ==
  IF s = <<>> THEN <<>>
  ELSE (IF Head(s) = c THEN repl ELSE <<Head(s)>>) \o Replace(Tail(s), c, repl)

\* An escape that replaces the quotes first and the backslashes second.
EscapeQuoteFirst(path) ==
  Replace(Replace(path, Quote, <<Backslash, Quote>>), Backslash, <<Backslash, Backslash>>)

\* escape_json_path: .replace('\\', "\\\\").replace('"', "\\\"").
EscapeJsonPath(path) ==
  Replace(Replace(path, Backslash, <<Backslash, Backslash>>), Quote, <<Backslash, Quote>>)

\* write_json's loop body for the paths from index i on.
RECURSIVE WriteJsonItems(_, _)
WriteJsonItems(paths, i) ==
  IF i > Len(paths) THEN <<>>
  ELSE (IF i > 1 THEN <<",">> ELSE <<>>) \o <<Quote>> \o EscapeJsonPath(paths[i])
         \o <<Quote>> \o WriteJsonItems(paths, i + 1)

\* write_json: "[", the items, "]\n".
WriteJson(paths) == <<"[">> \o WriteJsonItems(paths, 1) \o <<"]", Newline>>

\* emit_results' plain arm: writeln!(handle, "{}", p.display()) for each path.
RECURSIVE WritePlain(_)
WritePlain(paths) ==
  IF paths = <<>> THEN <<>> ELSE Head(paths) \o <<Newline>> \o WritePlain(Tail(paths))

\* emit_results(paths, json, None): what goes to standard output.
EmitResults(paths, json) == IF json THEN WriteJson(paths) ELSE WritePlain(paths)

\* BufWriter::write_all: the bytes go to the in-memory buffer.
BufWrite(l, bytes) == [l EXCEPT !.buf = @ \o bytes]

\* BufWriter::flush succeeding: the buffer goes to the file.
Flush(l) == [l EXCEPT !.file = @ \o l.buf, !.buf = <<>>]

\* LiveOutput::new after File::create succeeded.
LiveNew(json) ==
  IF json
    THEN BufWrite([kind |-> "json", first |-> TRUE, buf |-> <<>>, file |-> <<>>], <<"[">>)
    ELSE [kind |-> "plain", first |-> FALSE, buf |-> <<>>, file |-> <<>>]

\* A record that never writes the separating comma.
RecordWritesNoComma(l, path) ==
  IF l.kind = "json"
    THEN BufWrite(l, <<Newline, " ", " ", Quote>> \o EscapeJsonPath(path) \o <<Quote>>)
    ELSE BufWrite(l, path \o <<Newline>>)

\* LiveOutput::record up to its flush: the bytes written for one path.
RecordWrites(l, path) ==
  IF l.kind = "json"
    THEN BufWrite(l, (IF ~l.first THEN <<",">> ELSE <<>>)
                       \o <<Newline, " ", " ", Quote>> \o EscapeJsonPath(path) \o <<Quote>>)
    ELSE BufWrite(l, path \o <<Newline>>)

\* A record that writes the path twice.
RecordTwice(l, path, flush_ok) ==
  IF flush_ok
    THEN [Flush(RecordWrites(RecordWrites(l, path), path)) EXCEPT !.first = FALSE]
    ELSE RecordWrites(l, path)

\* LiveOutput::record; flush_ok says whether writer.flush() succeeded.  When it
\* fails the `?` returns before *first = false.
Record(l, path, flush_ok) ==
  IF flush_ok
    THEN [Flush(RecordWrites(l, path)) EXCEPT !.first = FALSE]
    ELSE RecordWrites(l, path)

\* A finalize that always writes the newline before the bracket.
FinalizeBytesNewline(l) == IF l.kind = "json" THEN <<Newline, "]", Newline>> ELSE <<>>

\* The bytes LiveOutput::finalize writes before its flush.
FinalizeBytes(l) ==
  IF l.kind = "json"
    THEN (IF l.first THEN <<"]", Newline>> ELSE <<Newline, "]", Newline>>)
    ELSE <<>>

\* LiveOutput::finalize; flush_ok says whether writer.flush() succeeded.
Finalize(l, flush_ok) ==
  IF flush_ok THEN Flush(BufWrite(l, FinalizeBytes(l))) ELSE BufWrite(l, FinalizeBytes(l))

\* Dropping the BufWriter when main returns: one more flush attempt, its
\* result ignored.
DropLive(l, flush_ok) == IF flush_ok /\ l.kind # "none" THEN Flush(l) ELSE l

\* ------------------------------------------------------------ application

\* u64::saturating_add(1); the counters of the model stay far below u64::MAX.
SaturatingInc(x) == x + 1

\* A set test that never finds the path.
SeenInsertAlways(seen, path) == TRUE

\* HashSet::insert's result: true when the path was not yet in the set.
SeenInsert(seen, path) == path \notin seen

\* An insert that leaves the set as it was.
SeenAddForget(seen, path) == seen

\* An insert that keeps only the newest path.
SeenAddReplace(seen, path) == {path}

\* HashSet::insert's effect on the set.
SeenAdd(seen, path) == seen \cup {path}

\* A push that never evicts.
PushRecentNoEvict(rec, p) == Append(rec, p)

\* App::push_recent.
PushRecent(rec, p) ==
  LET pushed == Append(rec, p)
  IN IF Len(pushed) > RecentCap
       THEN SubSeq(pushed, Len(pushed) - RecentCap + 1, Len(pushed))
       ELSE pushed

\* App::total_scanned / App::total_found: the sum of one counter over all roots.
RECURSIVE SumTo(_, _)
SumTo(f, n) == IF n = 0 THEN 0 ELSE f[n] + SumTo(f, n - 1)

TotalScanned == SumTo([r \in RootIdx |-> roots[r].scanned], Len(tree))

TotalFound == SumTo([r \in RootIdx |-> roots[r].found], Len(tree))

\* App::all_done.
AllDone == \A r \in RootIdx : roots[r].done

\* render_recent_list: the items drawn in an area of the given height.
RecentItems(height) ==
  IF height < 3 THEN <<>>
  ELSE LET capacity == IF height >= 2 THEN height - 2 ELSE 0
           window == IF capacity < 1 THEN 1 ELSE IF capacity > 12 THEN 12 ELSE capacity
           start == IF Len(recent) >= window THEN Len(recent) - window ELSE 0
           slice == SubSeq(recent, start + 1, Len(recent))
           n == IF Len(slice) < window THEN Len(slice) ELSE window
       IN [i \in 1..n |-> slice[Len(slice) + 1 - i]]

\* ------------------------------------------------------------------- main

\* main returns with the given result; live_output is dropped.
Exit(kind, l) ==
  /\ mainpc' = "exited"
  /\ exit_kind' = kind
  /\ \E flush_ok \in BOOLEAN : live' = DropLive(l, flush_ok)

\* Line 148: spawn_scanners starts one thread per root.
MainSpawn ==
  /\ mainpc = "spawn"
  /\ mainpc' = "live_new"
  /\ rpc' = [r \in RootIdx |-> "start"]
  /\ UNCHANGED <<inputs, clock, chan, pending, last_progress, wpc, went, wnow, sent,
                 lock_holder, progress_at, recvd, appvars,
                 live, stdout, exit_kind, finalize_calls, emit_calls, found_log>>

\* Lines 150-153: the live writer, when an output file was requested.
MainLiveNew ==
  /\ mainpc = "live_new"
  /\ IF output
       THEN \E created \in BOOLEAN :
              IF created
                THEN /\ live' = LiveNew(json_output)
                     /\ mainpc' = "tui_setup"
                     /\ UNCHANGED exit_kind
                ELSE Exit("err", live)
       ELSE /\ mainpc' = "tui_setup"
            /\ UNCHANGED <<live, exit_kind>>
  /\ UNCHANGED <<inputs, clock, scanvars, appvars, stdout, finalize_calls, emit_calls,
                 found_log, recvd>>

\* Lines 156-163: raw mode, alternate screen, terminal; each may fail.
MainTuiSetup ==
  /\ mainpc = "tui_setup"
  /\ \E ok \in BOOLEAN :
       IF ok THEN mainpc' = "drain" /\ UNCHANGED <<live, exit_kind>>
             ELSE Exit("err", live)
  /\ UNCHANGED <<inputs, clock, scanvars, appvars, stdout, finalize_calls, emit_calls,
                 found_log, recvd>>

\* A drain loop that stops although messages are queued.
TryRecvGivesUp == TRUE

\* A drain loop that waits for the next message instead of ending.
RecvBlocks == FALSE

\* rx.try_recv() returns Err: no message is queued.
TryRecvEmpty == chan = <<>>

\* try_recv returned a message of the given type.
Received(type) == mainpc = "drain" /\ chan # <<>> /\ Head(chan).type = type

\* rx.try_recv() returns Ok(msg): the oldest queued message leaves the channel.
TryRecv ==
  /\ chan' = Tail(chan)
  /\ recvd' = [recvd EXCEPT ![Head(chan).root_idx] = Append(@, Head(chan))]

\* A Scanned arm that counts the result for every root.
ApplyScannedEveryRoot(rs, r) ==
  [q \in 1..Len(rs) |-> [rs[q] EXCEPT !.scanned = SaturatingInc(@)]]

\* Line 171: rs.scanned = rs.scanned.saturating_add(1).
ApplyScanned(rs, r) == [rs EXCEPT ![r].scanned = SaturatingInc(@)]

\* Lines 170-172.
MainRecvScanned ==
  /\ Received("Scanned")
  /\ TryRecv
  /\ roots' = ApplyScanned(roots, Head(chan).root_idx)
  /\ UNCHANGED <<inputs, clock, sent, lock_holder, progress_at, rpc, pending, last_progress, wpc, went, wnow, mainpc,
                 recent, all_found, seen_found, live, stdout, exit_kind, finalize_calls,
                 emit_calls, found_log>>

\* A Progress arm that also counts the path as scanned.
ApplyProgressCounting(rs, r, path) ==
  [rs EXCEPT ![r].current = <<path>>, ![r].scanned = SaturatingInc(@)]

\* Line 174: rs.current = Some(path).
ApplyProgress(rs, r, path) == [rs EXCEPT ![r].current = <<path>>]

\* Lines 173-175.
MainRecvProgress ==
  /\ Received("Progress")
  /\ TryRecv
  /\ roots' = ApplyProgress(roots, Head(chan).root_idx, Head(chan).path)
  /\ UNCHANGED <<inputs, clock, sent, lock_holder, progress_at, rpc, pending, last_progress, wpc, went, wnow, mainpc,
                 recent, all_found, seen_found, live, stdout, exit_kind, finalize_calls,
                 emit_calls, found_log>>

\* A handler that forgets the counter.
CountFoundNever(rs, r) == rs

\* A handler that always credits the first root.
CountFoundFirstRoot(rs, r) == [rs EXCEPT ![1].found = SaturatingInc(@)]

\* Line 178: the counter of the root the message names.
CountFound(rs, r) == [rs EXCEPT ![r].found = SaturatingInc(@)]

\* Lines 176-185.
MainRecvFound ==
  /\ Received("Found")
  /\ TryRecv
  /\ found_log' = Append(found_log, [root_idx |-> Head(chan).root_idx, path |-> Head(chan).path])
  /\ LET r == Head(chan).root_idx
         path == Head(chan).path
     IN IF SeenInsert(seen_found, path)
          THEN /\ seen_found' = SeenAdd(seen_found, path)
               /\ roots' = CountFound(roots, r)
               /\ recent' = PushRecent(recent, path)
               /\ all_found' = Append(all_found, path)
               /\ IF live.kind # "none"
                    THEN \E flush_ok \in BOOLEAN :
                           IF flush_ok
                             THEN /\ live' = Record(live, path, TRUE)
                                  /\ UNCHANGED <<mainpc, exit_kind>>
                             ELSE Exit("err", Record(live, path, FALSE))
                    ELSE UNCHANGED <<live, mainpc, exit_kind>>
          ELSE UNCHANGED <<seen_found, roots, recent, all_found, live, mainpc, exit_kind>>
  /\ UNCHANGED <<inputs, clock, sent, lock_holder, progress_at, rpc, pending, last_progress, wpc, went, wnow, stdout,
                 finalize_calls, emit_calls>>

\* Lines 186-189.
MainRecvDone ==
  /\ Received("Done")
  /\ TryRecv
  /\ roots' = [roots EXCEPT ![Head(chan).root_idx].done = TRUE,
                            ![Head(chan).root_idx].current = <<>>]
  /\ UNCHANGED <<inputs, clock, sent, lock_holder, progress_at, rpc, pending, last_progress, wpc, went, wnow, mainpc,
                 recent, all_found, seen_found, live, stdout, exit_kind, finalize_calls,
                 emit_calls, found_log>>

\* Line 168: try_recv finds the channel empty; the drain loop ends.
MainDrainEmpty ==
  /\ mainpc = "drain"
  /\ TryRecvEmpty
  /\ mainpc' = "draw"
  /\ UNCHANGED <<inputs, clock, scanvars, appvars, live, stdout, exit_kind, finalize_calls,
                 emit_calls, found_log, recvd>>

\* Line 193: terminal.draw(..)?
MainDraw ==
  /\ mainpc = "draw"
  /\ \E ok \in BOOLEAN :
       IF ok THEN mainpc' = "poll" /\ UNCHANGED <<live, exit_kind>>
             ELSE Exit("err", live)
  /\ UNCHANGED <<inputs, clock, scanvars, appvars, stdout, finalize_calls, emit_calls,
                 found_log, recvd>>

\* What event::poll / event::read deliver in one iteration.
PollResults ==
  {[kind |-> k, code |-> "", ctrl |-> FALSE] : k \in {"none", "poll_err", "read_err", "other"}}
    \cup {[kind |-> "key", code |-> c, ctrl |-> m] : c \in {"q", "Esc", "c", "Enter"},
                                                     m \in BOOLEAN}

\* A match that also breaks on Enter.
IsQuitKeyOrEnter(k) == k.code \in {"q", "Esc", "Enter"} \/ (k.code = "c" /\ k.ctrl)

\* A match that knows only the q key.
IsQuitOnlyQ(k) == k.code = "q"

\* Lines 203-208: the keys that break the loop.
IsQuitKey(k) == k.code \in {"q", "Esc"} \/ (k.code = "c" /\ k.ctrl)

\* A loop that breaks on its own once every root is done and something was
\* scanned.
MainPollAutoExit(ev) ==
  /\ mainpc = "poll"
  /\ CASE ev.kind \in {"poll_err", "read_err"} -> Exit("err", live)
       [] ev.kind = "key" /\ IsQuitKey(ev) -> mainpc' = "restore" /\ UNCHANGED <<live, exit_kind>>
       [] OTHER -> /\ mainpc' = IF AllDone /\ TotalScanned > 0 THEN "restore" ELSE "drain"
                   /\ UNCHANGED <<live, exit_kind>>
  /\ UNCHANGED <<inputs, clock, scanvars, appvars, stdout, finalize_calls, emit_calls,
                 found_log, recvd>>

\* Lines 196-216: tick, poll, read, match.
MainPollOn(ev) ==
  /\ mainpc = "poll"
  /\ CASE ev.kind \in {"poll_err", "read_err"} -> Exit("err", live)
       [] ev.kind = "key" /\ IsQuitKey(ev) -> mainpc' = "restore" /\ UNCHANGED <<live, exit_kind>>
       [] OTHER -> mainpc' = "drain" /\ UNCHANGED <<live, exit_kind>>
  /\ UNCHANGED <<inputs, clock, scanvars, appvars, stdout, finalize_calls, emit_calls,
                 found_log, recvd>>

\* One iteration's input step, whatever the terminal delivers.
MainPoll == \E ev \in PollResults : MainPollOn(ev)

\* Lines 220-222: disable_raw_mode()?, execute!(LeaveAlternateScreen)?
MainRestore ==
  /\ mainpc = "restore"
  /\ \E ok \in BOOLEAN :
       IF ok THEN mainpc' = "output" /\ UNCHANGED <<live, exit_kind>>
             ELSE Exit("err", live)
  /\ UNCHANGED <<inputs, clock, scanvars, appvars, stdout, finalize_calls, emit_calls,
                 found_log, recvd>>

\* Lines 225-231: finalize the live writer, or else emit the results.
MainOutput ==
  /\ mainpc = "output"
  /\ IF live.kind # "none"
       THEN /\ finalize_calls' = finalize_calls + 1
            /\ \E flush_ok \in BOOLEAN :
                 Exit(IF flush_ok THEN "ok" ELSE "err", Finalize(live, flush_ok))
            /\ UNCHANGED <<stdout, emit_calls>>
       ELSE /\ emit_calls' = emit_calls + 1
            /\ \E write_ok \in BOOLEAN :
                 /\ stdout' = IF write_ok THEN stdout \o EmitResults(all_found, json_output)
                              ELSE stdout
                 /\ Exit(IF write_ok THEN "ok" ELSE "err", live)
            /\ UNCHANGED finalize_calls
  /\ UNCHANGED <<inputs, clock, scanvars, appvars, found_log, recvd>>

\* ---------------------------------------------------------- specification

Next ==
  \/ Tick
  \/ \E r \in RootIdx : RootSendStart(r)
  \/ \E r \in RootIdx : \E w \in Workers : WorkerTake(r, w)
  \/ \E r \in RootIdx : \E w \in Workers : WorkerSendScanned(r, w)
  \/ \E r \in RootIdx : \E w \in Workers : WorkerThrottle(r, w)
  \/ \E r \in RootIdx : \E w \in Workers : WorkerSendProgress(r, w)
  \/ \E r \in RootIdx : \E w \in Workers : WorkerSendFound(r, w)
  \/ \E r \in RootIdx : RootSendDone(r)
  \/ MainSpawn
  \/ MainLiveNew
  \/ MainTuiSetup
  \/ MainRecvScanned
  \/ MainRecvProgress
  \/ MainRecvFound
  \/ MainRecvDone
  \/ MainDrainEmpty
  \/ MainDraw
  \/ MainPoll
  \/ MainRestore
  \/ MainOutput

Spec == Init /\ [][Next]_vars

\* Every step of root r's scanner thread and of its walker workers.
ScannerStep(r) ==
  /\ r \in RootIdx
  /\ \/ RootSendStart(r)
     \/ \E w \in Workers : \/ WorkerTake(r, w)
                           \/ WorkerSendScanned(r, w)
                           \/ WorkerThrottle(r, w)
                           \/ WorkerSendProgress(r, w)
                           \/ WorkerSendFound(r, w)
     \/ RootSendDone(r)

\* Every step of main.
MainStep ==
  \/ MainSpawn \/ MainLiveNew \/ MainTuiSetup
  \/ MainRecvScanned \/ MainRecvProgress \/ MainRecvFound \/ MainRecvDone
  \/ MainDrainEmpty \/ MainDraw \/ MainPoll \/ MainRestore \/ MainOutput

\* The run with an unreadable entry in the middle of the tree.
FairInit == InitWith({ErrorRun}) /\ NoCall

\* Threads are scheduled fairly: main keeps running, and a scanner whose send
\* is possible again and again (the channel is drained again and again)
\* eventually sends.
FairSpec ==
  /\ FairInit
  /\ [][Next]_vars
  /\ WF_vars(MainStep)
  /\ \A r \in 1..Len(OverlapTrees) : SF_vars(ScannerStep(r))

\* ------------------------------------------------------------- properties

Min(a, b) == IF a <= b THEN a ELSE b

\* The last n elements of a sequence, in the sequence's order.
LastN(seq, n) == SubSeq(seq, Len(seq) - n + 1, Len(seq))

Reverse(seq) == [i \in 1..Len(seq) |-> seq[Len(seq) + 1 - i]]

\* The i-th received Found message carries a path no earlier one carried.
FirstOccurrence(i) == \A j \in 1..(i - 1) : found_log[j].path # found_log[i].path

\* Some Found message was received whose path had been received before.
DuplicateReceived == \E i \in 1..Len(found_log) : ~FirstOccurrence(i)

\* C1: in every reachable state all_found holds no path twice and is as long
\* as seen_found is large.
C1_AllFoundUnique ==
  /\ \A i, j \in 1..Len(all_found) : i # j => all_found[i] # all_found[j]
  /\ Len(all_found) = Cardinality(seen_found)

\* C1's case: a repeated Found message has been received and two distinct
\* paths are recorded.
C1_Witness == DuplicateReceived /\ Len(all_found) >= 2

\* C2: every root's found counter is at most len(all_found), and the counters
\* of all roots sum to len(all_found).
C2_FoundCountersSum ==
  /\ \A r \in RootIdx : roots[r].found <= Len(all_found)
  /\ TotalFound = Len(all_found)

\* C2's case: two roots have each been credited with a match and a repeated
\* Found message has been dropped.
C2_Witness ==
  /\ DuplicateReceived
  /\ \E r1, r2 \in RootIdx : r1 # r2 /\ roots[r1].found >= 1 /\ roots[r2].found >= 1

\* C3: receiving a Found message whose path is already in seen_found leaves
\* all_found, seen_found, recent, every root's fields and the live writer as
\* they were.
C3_RepeatedFoundChangesNothing ==
  [][(Received("Found") /\ Head(chan).path \in seen_found /\ chan' = Tail(chan))
       => UNCHANGED <<roots, recent, all_found, seen_found, live, mainpc>>]_vars

\* C3's case: with a live writer active, the last Found message received
\* repeats a path that a different root reported first.
C3_Witness ==
  /\ live.kind # "none"
  /\ Len(found_log) >= 2
  /\ \E i \in 1..(Len(found_log) - 1) :
       /\ found_log[i].path = found_log[Len(found_log)].path
       /\ found_log[i].root_idx # found_log[Len(found_log)].root_idx

\* C4: a path reported by several roots is recorded once, and the one counter
\* incremented for it is that of the root whose Found message was received
\* first: each root's counter is the number of Found messages of that root that
\* were the first to carry their path.
C4_FirstReceivedWins ==
  /\ \A r \in RootIdx :
       roots[r].found =
         Cardinality({i \in 1..Len(found_log) : found_log[i].root_idx = r /\ FirstOccurrence(i)})
  /\ \A i \in 1..Len(found_log) :
       Cardinality({k \in 1..Len(all_found) : all_found[k] = found_log[i].path}) = 1

\* C4's case: both roots reported the same path, root 2's message was received
\* first, and root 2 alone was credited.
C4_Witness ==
  /\ Len(tree) >= 2
  /\ \E i, j \in 1..Len(found_log) :
       /\ i < j
       /\ found_log[i].path = found_log[j].path
       /\ found_log[i].root_idx = 2
       /\ found_log[j].root_idx = 1
  /\ roots[2].found = 1
  /\ roots[1].found = 0

\* The window render_recent_list uses for an area of the given height.
RecentWindow(height) == Min(RecentCap, IF height - 2 < 1 THEN 1 ELSE height - 2)

\* The area heights the properties of the recent list are checked for.
Heights == {0, 3, 4, RecentCap + 2, RecentCap + 4}

\* C5 as stated: recent holds at most 12 paths, the most recently confirmed
\* matches in reverse-discovery order (newest first).
C5_RecentReverseDiscovery ==
  /\ Len(recent) <= RecentCap
  /\ recent = Reverse(LastN(all_found, Min(RecentCap, Len(all_found))))

\* C5 amended: recent holds at most 12 paths, the most recently confirmed
\* matches in discovery order (oldest first, newest last); it is the list
\* drawn by render_recent_list that shows them newest first.
C5_RecentDiscoveryOrder ==
  /\ Len(recent) <= RecentCap
  /\ recent = LastN(all_found, Min(RecentCap, Len(all_found)))
  /\ \A h \in Heights :
       h >= 3 => RecentItems(h) =
                   Reverse(LastN(all_found, Min(RecentWindow(h), Len(all_found))))

\* C5's case: more matches than the buffer holds have been confirmed, so the
\* oldest have been evicted.
C5_Witness == Len(all_found) > RecentCap /\ Len(recent) = RecentCap

\* main has returned after a live writer had been created.
ExitedWithWriter == mainpc = "exited" /\ live.kind # "none"

\* C6: when a live writer was created, finalize has run exactly once whenever
\* main has returned, whatever the exit path.
C6_FinalizeOnEveryExit == ExitedWithWriter => finalize_calls = 1

\* JSON text (RFC 8259), as far as an array of strings needs it.
JsonWhitespace == {" ", Newline}

\* Characters that may follow a backslash inside a JSON string (\uXXXX aside).
JsonEscapable == {Quote, Backslash, "/", "b", "f", "n", "r", "t"}

\* Control characters (U+0000..U+001F) must not occur raw inside a JSON string.
JsonControl == {Newline}

\* One step of a recognizer of arrays of strings: q is [st, n], the position
\* in the grammar and the number of strings completed.
JsonStep(q, c) ==
  CASE q.st = "start" ->
         IF c \in JsonWhitespace THEN q
         ELSE IF c = "[" THEN [q EXCEPT !.st = "open"] ELSE [q EXCEPT !.st = "bad"]
    [] q.st = "open" ->
         IF c \in JsonWhitespace THEN q
         ELSE IF c = Quote THEN [q EXCEPT !.st = "string"]
         ELSE IF c = "]" THEN [q EXCEPT !.st = "end"] ELSE [q EXCEPT !.st = "bad"]
    [] q.st = "comma" ->
         IF c \in JsonWhitespace THEN q
         ELSE IF c = Quote THEN [q EXCEPT !.st = "string"] ELSE [q EXCEPT !.st = "bad"]
    [] q.st = "string" ->
         IF c = Quote THEN [st |-> "after", n |-> q.n + 1]
         ELSE IF c = Backslash THEN [q EXCEPT !.st = "escape"]
         ELSE IF c \in JsonControl THEN [q EXCEPT !.st = "bad"] ELSE q
    [] q.st = "escape" ->
         IF c \in JsonEscapable THEN [q EXCEPT !.st = "string"] ELSE [q EXCEPT !.st = "bad"]
    [] q.st = "after" ->
         IF c \in JsonWhitespace THEN q
         ELSE IF c = "," THEN [q EXCEPT !.st = "comma"]
         ELSE IF c = "]" THEN [q EXCEPT !.st = "end"] ELSE [q EXCEPT !.st = "bad"]
    [] q.st = "end" -> IF c \in JsonWhitespace THEN q ELSE [q EXCEPT !.st = "bad"]
    [] OTHER -> q

RECURSIVE JsonRun(_, _, _)
JsonRun(text, i, q) == IF i > Len(text) THEN q ELSE JsonRun(text, i + 1, JsonStep(q, text[i]))

\* The text is a syntactically valid JSON array of exactly n strings.
IsJsonStringArray(text, n) ==
  LET q == JsonRun(text, 1, [st |-> "start", n |-> 0])
  IN q.st = "end" /\ q.n = n

\* The JSON live writer has flushed at least one record and main is running.
AfterRecordFlush == Alive /\ live.kind = "json" /\ ~live.first /\ live.buf = <<>>

\* C7: in JSON live mode, after the flush of the N-th record (N >= 1) the
\* bytes in the file followed by the bytes finalize writes in that state are a
\* syntactically valid JSON array of N strings.
C7_TruncatedLiveJsonValid ==
  AfterRecordFlush => IsJsonStringArray(live.file \o FinalizeBytes(live), Len(all_found))

\* C8: the live writer flushes after every write: once a JSON writer exists
\* the opening bracket is in the file, and between the calls of main no
\* written byte is held only in the buffer.
C8_FlushedAfterEveryWrite ==
  (Alive /\ live.kind # "none") =>
     /\ live.buf = <<>>
     /\ live.kind = "json" => (Len(live.file) >= 1 /\ live.file[1] = "[")

\* What the run has written as its results: the output file, else stdout.
OutputBytes == IF output THEN live.file ELSE stdout

\* main has returned Ok without having received any Found message.
ExitedOkNothingFound == mainpc = "exited" /\ exit_kind = "ok" /\ found_log = <<>>

\* C9 as stated: when no Found message is processed, all_found is empty at exit
\* and the JSON output is exactly the two bytes [], from write_json and from
\* the live writer alike.
C9_EmptyJsonExactlyBrackets ==
  ExitedOkNothingFound =>
    /\ all_found = <<>>
    /\ json_output => OutputBytes = <<"[", "]">>

\* C9 amended: the JSON output is exactly [] followed by one newline, from
\* write_json and from the live writer alike (and the plain output is empty).
C9_EmptyJsonBracketsNewline ==
  ExitedOkNothingFound =>
    /\ all_found = <<>>
    /\ json_output => OutputBytes = <<"[", "]", Newline>>
    /\ ~json_output => OutputBytes = <<>>

\* C9's case: a root without repositories was scanned to the end, the user
\* quit, and the JSON live writer was finalized.
C9_Witness ==
  /\ ExitedOkNothingFound
  /\ AllDone
  /\ TotalScanned = Len(tree[1])
  /\ output /\ json_output
  /\ finalize_calls = 1

\* The traversal of root r yields an error result.
YieldsError(r) == \E i \in 1..Len(tree[r]) : ~tree[r][i].ok

\* main has left the event loop (or never entered it): it no longer drains.
NotDraining == mainpc \in {"restore", "output", "exited"}

\* C10: an error result does not abort the scan of its root: when the root is
\* done every result of the traversal, the error included, has been counted,
\* and unless main stops draining the root does become done.
C10_ErrorDoesNotAbortScan ==
  /\ [](\A r \in RootIdx :
          (YieldsError(r) /\ roots[r].done) => roots[r].scanned = Len(tree[r]))
  /\ \A r \in 1..Len(OverlapTrees) :
       <>((r \in RootIdx /\ YieldsError(r)) => (roots[r].done \/ NotDraining))

\* C10's case: a root whose traversal yielded an error is done, and the entry
\* after the error has been counted as well.
C10_Witness ==
  \E r \in RootIdx :
    /\ YieldsError(r)
    /\ tree[r][Len(tree[r])].ok
    /\ roots[r].done
    /\ roots[r].scanned = Len(tree[r])
    /\ ~NotDraining

\* ---- C11

\* The number of messages of the given type in a sequence of messages.
CountType(seq, type) == Cardinality({i \in 1..Len(seq) : seq[i].type = type})

\* C11: a root's scanner enqueues at most one Done message, exactly one once
\* scan_root has finished, and no message of that root is enqueued after it:
\* Done is the last message the root has ever sent.
C11_DoneOnceAndLast ==
  \A r \in RootIdx :
    /\ CountType(sent[r], "Done") <= 1
    /\ (rpc[r] = "finished") = (CountType(sent[r], "Done") = 1)
    /\ \A i \in 1..Len(sent[r]) : sent[r][i].type = "Done" => i = Len(sent[r])

\* A root walked by several workers has finished after sending Scanned,
\* Progress and Found messages, and main is still running.
C11_Witness ==
  \E r \in RootIdx :
    /\ nworkers >= 2
    /\ rpc[r] = "finished"
    /\ CountType(sent[r], "Scanned") = Len(tree[r])
    /\ CountType(sent[r], "Found") >= 1
    /\ CountType(sent[r], "Progress") >= 2
    /\ Alive

\* ---- C12

\* The queued messages of root r that have the given type.
QueuedOf(r, type) ==
  Cardinality({i \in 1..Len(chan) : chan[i].root_idx = r /\ chan[i].type = type})

MsgTypes == {"Scanned", "Progress", "Found", "Done"}

\* Every message a scanner has enqueued is either received or still queued.
NothingDropped ==
  \A r \in RootIdx : \A type \in MsgTypes :
    CountType(sent[r], type) = CountType(recvd[r], type) + QueuedOf(r, type)

\* The positions of the walker closure that are a tx.send.
SendPcs == {"send_scanned", "send_progress", "send_found"}

\* C12: the channel never holds more than its capacity (ChanCap stands for
\* the 1024 of the source); while it is full no send completes and every
\* scanner that is at a send stays there; and no message is ever dropped:
\* each enqueued message is received or still queued.
C12_BoundedBlockingLossless ==
  /\ [](Len(chan) <= ChanCap)
  /\ []NothingDropped
  /\ [][Len(chan) = ChanCap =>
          /\ sent' = sent
          /\ \A r \in RootIdx :
               /\ rpc[r] = "start" => rpc'[r] = "start"
               /\ rpc[r] = "walk" => rpc'[r] = "walk"
               /\ \A w \in Workers : wpc[r][w] \in SendPcs => wpc'[r][w] = wpc[r][w]]_vars

\* The channel is full while the render loop is draining, a worker waits
\* at its Found send, and messages of that root were already received.
C12_Witness ==
  /\ Len(chan) = ChanCap
  /\ mainpc = "drain"
  /\ \E r \in RootIdx : \E w \in Workers :
       wpc[r][w] = "send_found" /\ recvd[r] # <<>>

\* ---- C13

\* The queued messages of root r, in channel order.
QueuedFrom(r) == LET OfRoot(m) == m.root_idx = r IN SelectSeq(chan, OfRoot)

\* C13: for every root, the messages received so far followed by the root's
\* queued messages are exactly the messages the root's scanner enqueued, in
\* the order it enqueued them; so the drain loop handles each root's messages
\* in enqueue order, whatever other roots' messages lie between them.
C13_PerRootFifo ==
  \A r \in RootIdx : sent[r] = recvd[r] \o QueuedFrom(r)

\* Two roots' messages are interleaved: both have messages received and
\* both have a message queued.
C13_Witness ==
  \E r1 \in RootIdx : \E r2 \in RootIdx :
    /\ r1 # r2
    /\ Len(recvd[r1]) >= 2 /\ Len(recvd[r2]) >= 2
    /\ QueuedFrom(r1) # <<>> /\ QueuedFrom(r2) # <<>>

\* ---- C14

\* RootState.current after handling the messages seq in order: the path of
\* the last Progress, unless a Done came after it.
RECURSIVE CurrentAfter(_, _)
CurrentAfter(seq, i) ==
  IF i = 0 THEN <<>>
  ELSE IF seq[i].type = "Done" THEN <<>>
  ELSE IF seq[i].type = "Progress" THEN <<seq[i].path>>
  ELSE CurrentAfter(seq, i - 1)

\* Every message received from root r has been applied to the App state.
Applied(r) ==
  /\ roots[r].scanned = CountType(recvd[r], "Scanned")
  /\ roots[r].done = (CountType(recvd[r], "Done") > 0)
  /\ roots[r].current = CurrentAfter(recvd[r], Len(recvd[r]))
  /\ \A i \in 1..Len(recvd[r]) : recvd[r][i].type = "Found" => recvd[r][i].path \in seen_found

\* C14: an iteration of the render loop drains, then draws, then polls. The
\* draw is entered only from the drain loop, by a try_recv that found the
\* channel empty; the poll only after the draw; the next drain only after
\* the poll. Every received message has been applied to the state (so in
\* particular before the draw), and in the drain loop main can always take
\* a step: it never waits for a message.
C14_DrainDrawPoll ==
  /\ [][(mainpc' = "draw" /\ mainpc # "draw") =>
          (mainpc = "drain" /\ chan = <<>> /\ chan' = chan)]_vars
  /\ [][(mainpc' = "poll" /\ mainpc # "poll") => mainpc = "draw"]_vars
  /\ [][(mainpc' = "drain" /\ mainpc # "drain") => mainpc \in {"poll", "tui_setup"}]_vars
  /\ [](\A r \in RootIdx : Applied(r))
  /\ [](mainpc = "drain" =>
          ENABLED (MainRecvScanned \/ MainRecvProgress \/ MainRecvFound
                     \/ MainRecvDone \/ MainDrainEmpty))

\* Main is about to draw after it applied Scanned and Found messages, and
\* the scanners have already queued new messages.
C14_Witness ==
  /\ mainpc = "draw"
  /\ TotalScanned >= 2
  /\ TotalFound >= 1
  /\ chan # <<>>

\* ---- C15

\* The keys the user quits with: q, Esc, or c with the control modifier.
QuitKeys ==
  {ev \in PollResults :
     ev.kind = "key" /\ (ev.code = "q" \/ ev.code = "Esc" \/ (ev.code = "c" /\ ev.ctrl))}

\* Main has left the render loop.
LeftLoop == mainpc \in {"restore", "output", "exited"}

C16_EmitterOnceAfterLoop ==
  /\ [][(LeftLoop /\ mainpc # "exited" /\ mainpc' = "exited") =>
          emit_calls' = (IF live.kind = "none" THEN 1 ELSE 0)]_vars
  /\ [][LeftLoop => (all_found' = all_found /\ recvd' = recvd)]_vars
  /\ [][(mainpc = "output" /\ live.kind = "none" /\ exit_kind' = "ok") =>
          stdout' = EmitResults(all_found, json_output)]_vars

\* The same without the requirement that the emitter has run when main
\* returns from a failed terminal restore.
C16_EmitterOnceAfterRestore ==
  /\ [][(mainpc = "output" /\ mainpc' = "exited") =>
          emit_calls' = (IF live.kind = "none" THEN 1 ELSE 0)]_vars
  /\ [][LeftLoop => (all_found' = all_found /\ recvd' = recvd)]_vars
  /\ [][(mainpc = "output" /\ live.kind = "none" /\ exit_kind' = "ok") =>
          stdout' = EmitResults(all_found, json_output)]_vars

\* ---- C17

\* Scanner r has work left: it has not yet sent its Done.
Unfinished(r) == rpc[r] \in {"start", "walk"}

\* C17 as stated: when main has returned after a quit, every scanner has
\* exhausted its tree and enqueued its Done message.
C17_ScannersCompleteAfterQuit ==
  (mainpc = "exited" /\ exit_kind = "ok") =>
    \A r \in RootIdx : rpc[r] = "finished" /\ pending[r] = <<>>

\* C17, amended: after the user quits the scanners are not cancelled, but
\* they need not complete. Nothing is received any more, so the channel only
\* fills; while main restores the terminal and writes the output, an
\* unfinished scanner can still take a step as long as the channel has room;
\* and when main has returned no scanner takes a step again.
C17_ScannersEndWithMain ==
  /\ [][LeftLoop => (recvd' = recvd /\ Len(chan') >= Len(chan))]_vars
  /\ [](\A r \in RootIdx :
          (mainpc \in {"restore", "output"} /\ Unfinished(r) /\ Len(chan) < ChanCap)
            => ENABLED ScannerStep(r))
  /\ [][mainpc = "exited" => UNCHANGED scanvars]_vars

\* Main has returned successfully after a quit while a scanner with results
\* left was waiting at a send on the full channel.
C17_Witness ==
  /\ mainpc = "exited" /\ exit_kind = "ok"
  /\ Len(chan) = ChanCap
  /\ \E r \in RootIdx : \E w \in Workers :
       rpc[r] = "walk" /\ pending[r] # <<>> /\ wpc[r][w] \in SendPcs

\* ---- C18

\* Worker w of root r is at a tx.send.
AtSend(r, w) == r \in RootIdx /\ w \in Workers /\ wpc[r][w] \in SendPcs

\* scan_root itself is at a tx.send (the first Progress, or Done).
RootAtSend(r) ==
  r \in RootIdx /\ (rpc[r] = "start" \/ (rpc[r] = "walk" /\ WalkReturned(r)))

\* The render loop is running.
InLoop == mainpc \in {"drain", "draw", "poll"}

\* No worker is at a send while it holds the throttle lock, and main can
\* always take a step until it returns.
NoLockAcrossSend ==
  /\ \A r \in RootIdx : \A w \in Workers :
       wpc[r][w] \in SendPcs => lock_holder[r] # w
  /\ Alive => ENABLED MainStep

\* Main has left the render loop and has not yet returned.
AfterLoop == mainpc \in {"restore", "output"}

\* C18 as stated: no worker holds the throttle lock at a send, main is never
\* stuck, and no scanner waits at a send on the full channel in a state from
\* which no message is received any more (main has left the render loop).
C18_BlockedSendCanProceed ==
  /\ NoLockAcrossSend
  /\ \A r \in RootIdx :
       /\ (RootAtSend(r) /\ Len(chan) = ChanCap) => ~AfterLoop
       /\ \A w \in Workers : (AtSend(r, w) /\ Len(chan) = ChanCap) => ~AfterLoop

\* C18, amended: no worker holds the throttle lock at a send, main is never
\* stuck, and while the render loop is running every scanner that is at a
\* send eventually gets past it (at all times there is a later moment at
\* which it is not at a send, or the loop is no longer running); once main
\* has left the loop (quit or error) a scanner at a send on the full channel
\* stays there.
C18_SendProceedsWhileLoopRuns ==
  /\ []NoLockAcrossSend
  /\ \A r \in 1..Len(ErrorTree) :
       /\ []<>(~RootAtSend(r) \/ ~InLoop)
       /\ \A w \in 1..NumWorkers : []<>(~AtSend(r, w) \/ ~InLoop)

\* A worker has got past the throttle block and waits at its Progress send
\* on the full channel while the render loop is polling for input.
C18_Witness ==
  /\ mainpc = "poll"
  /\ Len(chan) = ChanCap
  /\ \E r \in RootIdx : \E w \in Workers :
       wpc[r][w] = "send_progress" /\ lock_holder[r] = 0

\* ---- C19

\* C19: handling a received message, a Found whose record fails included,
\* leaves main in the drain loop with the session running.
C19_RecordErrorKeepsSession ==
  [][(mainpc = "drain" /\ recvd' # recvd) =>
       (mainpc' = "drain" /\ exit_kind' = "running")]_vars

\* ---- C20

\* C20: when an output file is requested, no scanner has been spawned as
\* long as the live writer does not exist; so when its creation fails, main
\* returns with no scanner started.
C20_WriterBeforeScanners ==
  (output /\ live.kind = "none") => \A r \in RootIdx : rpc[r] = "unspawned"

\* ------------------------------------------------- the two JSON serializers

\* Paths given to the serializers: plain, with a quote, with a backslash,
\* with a space and a newline.
MatchPaths == {<<"a">>, <<"a", Quote>>, <<Backslash, "b">>, <<" ", Newline>>}

\* Every sequence of at most MaxMatches such paths.
MatchSeqs == UNION {[1..n -> MatchPaths] : n \in 0..MaxMatches}

\* A program that is not running: one root, nothing spawned.
IdleRun == [EmptyRun EXCEPT !.outs = {<<TRUE, TRUE>>}]

\* What the serializer runs leave alone.
unwritten == <<tree, nworkers, maxclock, output, json_output, arg, clock, scanvars, mainpc,
               roots, recent, seen_found, stdout, exit_kind, emit_calls, found_log, recvd>>

WriterInit == InitWith({IdleRun}) /\ arg \in MatchSeqs /\ res = "none"

\* LiveOutput::new(dest, true).
WriterNew ==
  /\ live.kind = "none"
  /\ live' = LiveNew(TRUE)
  /\ UNCHANGED <<unwritten, res, all_found, finalize_calls>>

\* writer.record(path) for the next match of the sequence.
WriterRecord ==
  /\ live.kind = "json"
  /\ finalize_calls = 0
  /\ Len(all_found) < Len(arg)
  /\ live' = Record(live, arg[Len(all_found) + 1], TRUE)
  /\ all_found' = Append(all_found, arg[Len(all_found) + 1])
  /\ UNCHANGED <<unwritten, res, finalize_calls>>

\* writer.finalize() after the last match.
WriterFinalize ==
  /\ live.kind = "json"
  /\ finalize_calls = 0
  /\ all_found = arg
  /\ live' = Finalize(live, TRUE)
  /\ finalize_calls' = 1
  /\ UNCHANGED <<unwritten, res, all_found>>

\* write_json(handle, paths) on the whole sequence.
WriterEmit ==
  /\ res = "none"
  /\ res' = WriteJson(arg)
  /\ UNCHANGED <<tree, nworkers, maxclock, output, json_output, arg, clock, scanvars, mainpc,
                 roots, recent, seen_found, stdout, exit_kind, emit_calls, found_log, recvd,
                 live, all_found, finalize_calls>>

WriterNext == WriterNew \/ WriterRecord \/ WriterFinalize \/ WriterEmit

WriterSpec == WriterInit /\ [][WriterNext]_vars

\* ---- C21

\* Both serializers have run on the whole sequence.
BothSerialized == finalize_calls = 1 /\ res # "none"

\* The text without the spaces and newlines that stand outside its strings.
RECURSIVE StripLayout(_, _, _, _)
StripLayout(text, i, in_str, esc) ==
  IF i > Len(text) THEN <<>>
  ELSE LET c == text[i] IN
    IF in_str
      THEN <<c>> \o StripLayout(text, i + 1, esc \/ c # Quote, ~esc /\ c = Backslash)
      ELSE IF c \in {" ", Newline}
        THEN StripLayout(text, i + 1, FALSE, FALSE)
        ELSE <<c>> \o StripLayout(text, i + 1, c = Quote, FALSE)

\* C21 as stated: for every sequence of matches the bytes of write_json are
\* the bytes the live writer has written after new, the records and finalize.
C21_SameBytes == BothSerialized => live.file = res

\* C21, amended: the two outputs are the same array of the same escaped
\* strings in the same order, and differ only in layout: they are equal once
\* the spaces and newlines outside the strings are removed, and they are the
\* same bytes exactly when the sequence is empty.
C21_SameUpToLayout ==
  BothSerialized =>
    /\ StripLayout(live.file, 1, FALSE, FALSE) = StripLayout(res, 1, FALSE, FALSE)
    /\ (live.file = res) = (arg = <<>>)

\* Both serializers have written a longest sequence whose first path holds
\* a quote and whose last path holds a space and a newline.
C21_Witness ==
  /\ BothSerialized
  /\ Len(arg) = MaxMatches
  /\ arg[1] = <<"a", Quote>>
  /\ arg[Len(arg)] = <<" ", Newline>>

\* ------------------------------------------------------- root normalization

\* os_roots() where the platform is not Windows: the single root "/", which
\* sorts before every other path.
OsRoots == <<0>>

\* Vec::sort, by insertion.
RECURSIVE SortInsert(_, _)
SortInsert(x, s) ==
  IF s = <<>> THEN <<x>>
  ELSE IF x <= Head(s) THEN <<x>> \o s
  ELSE <<Head(s)>> \o SortInsert(x, Tail(s))

RECURSIVE SortPaths(_)
SortPaths(s) == IF s = <<>> THEN <<>> ELSE SortInsert(Head(s), SortPaths(Tail(s)))

\* A dedup that keeps every element.
DedupNothing(s) == s

\* Vec::dedup: of consecutive equal elements only the first is kept.
RECURSIVE Dedup(_)
Dedup(s) ==
  IF Len(s) <= 1 THEN s
  ELSE IF s[1] = s[2] THEN Dedup(Tail(s))
  ELSE <<s[1]>> \o Dedup(Tail(s))

\* Vec::retain(|p| p.is_dir()).
RetainDirs(s, dirs) == LET is_dir(p) == p \in dirs IN SelectSeq(s, is_dir)

\* Lines 133-141: the candidates, extended by --root, sorted, deduplicated,
\* reduced to the directories.
NormalizeRoots(a) ==
  LET candidates == IF a.paths = <<>> /\ a.root = <<>> THEN OsRoots ELSE a.paths
  IN RetainDirs(Dedup(SortPaths(candidates \o a.root)), a.dirs)

\* Line 143: the message on standard error.
NoRootsMessage == "No valid roots to scan."

PathLists == UNION {[1..n -> 1..MaxPathId] : n \in 0..MaxPathId}

\* The command line (positional paths, --root paths) and the directories
\* that exist; -o is given.
RootsInit ==
  /\ arg \in [paths : PathLists, root : PathLists, dirs : SUBSET (0..MaxPathId)]
  /\ res = "none"
  /\ mainpc = "args"
  /\ tree = <<>> /\ pending = <<>> /\ rpc = <<>> /\ last_progress = <<>>
  /\ wpc = <<>> /\ went = <<>> /\ wnow = <<>> /\ roots = <<>>
  /\ sent = <<>> /\ recvd = <<>> /\ lock_holder = <<>> /\ progress_at = <<>>
  /\ nworkers = 1 /\ maxclock = 0 /\ output = TRUE /\ json_output = TRUE
  /\ clock = 0 /\ chan = <<>> /\ recent = <<>> /\ all_found = <<>> /\ seen_found = {}
  /\ live = NoLive /\ stdout = <<>> /\ exit_kind = "running"
  /\ finalize_calls = 0 /\ emit_calls = 0 /\ found_log = <<>>

\* Lines 133-145 and, with roots left, the construction of the scan state
\* (nothing below the roots is modelled here: their trees are empty).
MainNormalize ==
  /\ mainpc = "args"
  /\ LET rs == NormalizeRoots(arg)
         n == Len(rs)
     IN /\ roots' = [r \in 1..n |-> RootStateNew(rs[r])]
        /\ tree' = [r \in 1..n |-> <<>>]
        /\ pending' = [r \in 1..n |-> <<>>]
        /\ rpc' = [r \in 1..n |-> "unspawned"]
        /\ last_progress' = [r \in 1..n |-> 0]
        /\ wpc' = [r \in 1..n |-> [w \in 1..nworkers |-> "idle"]]
        /\ went' = [r \in 1..n |-> [w \in 1..nworkers |-> NoEntry]]
        /\ wnow' = [r \in 1..n |-> [w \in 1..nworkers |-> 0]]
        /\ sent' = [r \in 1..n |-> <<>>]
        /\ recvd' = [r \in 1..n |-> <<>>]
        /\ lock_holder' = [r \in 1..n |-> 0]
        /\ progress_at' = [r \in 1..n |-> -1]
        /\ IF rs = <<>>
             THEN /\ res' = NoRootsMessage
                  /\ mainpc' = "exited"
                  /\ exit_kind' = "ok"
             ELSE /\ mainpc' = "spawn"
                  /\ UNCHANGED <<res, exit_kind>>
  /\ UNCHANGED <<arg, nworkers, maxclock, output, json_output, clock, chan, recent,
                 all_found, seen_found, live, stdout, finalize_calls, emit_calls, found_log>>

RootsNext == MainNormalize \/ MainSpawn \/ MainLiveNew \/ MainTuiSetup

RootsSpec == RootsInit /\ [][RootsNext]_vars

\* ---- C22

\* The paths of App.roots, in order.
RootPaths == [r \in 1..Len(roots) |-> roots[r].path]

\* The elements of a sequence.
Range(s) == {s[i] : i \in 1..Len(s)}

\* C22: after normalization the roots are strictly increasing (sorted, no
\* path twice) and are exactly the existing directories among the candidates,
\* where the candidates are the positional and --root paths, or the platform
\* root when neither was given; with no root left main has printed the
\* message and returned Ok with no scanner, no output file and no UI, and
\* otherwise it has printed nothing.
C22_RootsNormalized ==
  mainpc # "args" =>
    /\ \A i \in 1..Len(roots) : \A j \in 1..Len(roots) : i < j => RootPaths[i] < RootPaths[j]
    /\ Range(RootPaths) =
         (IF arg.paths = <<>> /\ arg.root = <<>>
            THEN Range(OsRoots)
            ELSE Range(arg.paths) \cup Range(arg.root)) \cap arg.dirs
    /\ IF roots = <<>>
         THEN /\ mainpc = "exited" /\ exit_kind = "ok" /\ res = NoRootsMessage
              /\ live.kind = "none" /\ rpc = <<>>
         ELSE res = "none"

\* Unsorted paths with one named twice have become two roots.
C22_Witness ==
  /\ mainpc = "spawn"
  /\ arg.paths = <<2, 1>>
  /\ arg.root = <<2>>
  /\ Len(roots) = 2

\* ------------------------------------------------------ the Progress throttle

\* One root with a repository and a file, walked by several workers over
\* one throttle window more than the other runs last.
ThrottleTree ==
  << << OkEntry(TRUE, ".git", <<"a", "b">>, << <<"a", "b">> >>),
        OkEntry(FALSE, "x", <<"a", "a">>, << <<"a", "a">> >>) >> >>

ThrottleRun ==
  [paths |-> << <<"a">> >>, trees |-> ThrottleTree, nworkers |-> NumWorkers,
   ticks |-> MaxTicks + 1, outs |-> {<<FALSE, TRUE>>}]

ThrottleInit == InitWith({ThrottleRun}) /\ NoCall

ThrottleSpec == ThrottleInit /\ [][Next]_vars

\* ---- C23

\* Root r's scanner enqueues a Progress message in this step.
ProgressEnqueued(r) == CountType(sent'[r], "Progress") > CountType(sent[r], "Progress")

\* C23 as stated: a Progress message of a root is enqueued at least one
\* throttle window after the root's previous Progress message.
C23_ProgressOneWindowApart ==
  [][\A r \in RootIdx :
       (ProgressEnqueued(r) /\ progress_at[r] >= 0) => clock - progress_at[r] >= Throttle]_vars

\* C23, amended: the throttle separates the decisions, not the messages. A
\* worker goes on to send a Progress only from the throttle block, only when
\* the time it read before is at least one window after the last such time
\* of the root, which it then replaces; so the times on which the workers'
\* Progress messages are decided are a window apart, two workers that read
\* times of the same window never both report, and a root never has sent
\* more Progress messages than one per window that has begun.
C23_DecisionsOneWindowApart ==
  /\ [][\A r \in RootIdx : \A w \in Workers :
          (wpc'[r][w] = "send_progress" /\ wpc[r][w] # "send_progress") =>
            /\ wpc[r][w] = "lock"
            /\ wnow[r][w] - last_progress[r] >= Throttle
            /\ last_progress'[r] = wnow[r][w]]_vars
  /\ [][\A r \in RootIdx : last_progress'[r] >= last_progress[r]]_vars
  /\ [](\A r \in RootIdx : CountType(sent[r], "Progress") <= 1 + (clock \div Throttle))

\* Two Progress messages of one root have been enqueued in the same window:
\* a worker that had decided in an earlier window was overtaken.
C23_Witness ==
  \E r \in RootIdx :
    /\ CountType(sent[r], "Progress") >= 3
    /\ progress_at[r] = clock
    /\ last_progress[r] = clock
    /\ \E i \in 1..Len(sent[r]) :
         /\ i < Len(sent[r])
         /\ sent[r][i].type = "Progress" /\ sent[r][i + 1].type = "Progress"

\* ---- C24

\* The messages of a sequence other than the Progress messages.
NonProgress(seq) == LET other(m) == m.type # "Progress" IN SelectSeq(seq, other)

\* The paths of the Found messages log[i..], without those in seen and
\* without repetitions, in order.
RECURSIVE NewPaths(_, _, _)
NewPaths(log, i, seen) ==
  IF i > Len(log) THEN <<>>
  ELSE IF log[i].path \in seen THEN NewPaths(log, i + 1, seen)
  ELSE <<log[i].path>> \o NewPaths(log, i + 1, seen \cup {log[i].path})

\* The live writer after successful records of paths[i..].
RECURSIVE RecordAll(_, _, _)
RecordAll(l, paths, i) ==
  IF i > Len(paths) THEN l ELSE RecordAll(Record(l, paths[i], TRUE), paths, i + 1)

\* The file of a live writer that recorded the paths and was finalized.
LiveFileOf(paths, json) == Finalize(RecordAll(LiveNew(json), paths, 1), TRUE).file

\* The aggregate state other than the current paths is determined by the
\* messages received other than Progress.
DeterminedWithoutProgress ==
  /\ all_found = NewPaths(found_log, 1, {})
  /\ seen_found = Range(all_found)
  /\ recent = LastN(all_found, Min(RecentCap, Len(all_found)))
  /\ \A r \in RootIdx :
       /\ roots[r].scanned = CountType(NonProgress(recvd[r]), "Scanned")
       /\ roots[r].done = (CountType(NonProgress(recvd[r]), "Done") > 0)
       /\ roots[r].found =
            Cardinality({i \in 1..Len(found_log) :
                           found_log[i].root_idx = r /\ FirstOccurrence(i)})
  /\ (mainpc = "exited" /\ exit_kind = "ok") =>
       OutputBytes = IF output THEN LiveFileOf(all_found, json_output)
                     ELSE EmitResults(all_found, json_output)

\* C24: all_found, seen_found, recent, the scanned and found counters, the
\* done flags and the output are functions of the received messages other
\* than Progress (so two runs that differ only in Progress messages agree on
\* them), and handling a Progress message changes the current path of its
\* root and nothing else.
C24_ProgressAdvisory ==
  /\ []DeterminedWithoutProgress
  /\ [][(Received("Progress") /\ chan' = Tail(chan)) =>
          /\ roots' = [roots EXCEPT ![Head(chan).root_idx].current = <<Head(chan).path>>]
          /\ UNCHANGED <<all_found, seen_found, recent, live, stdout, mainpc, exit_kind,
                         found_log>>]_vars

\* A root is done after Progress messages were handled between its other
\* messages, and a match was found.
C24_Witness ==
  \E r \in RootIdx :
    /\ roots[r].done
    /\ CountType(recvd[r], "Progress") >= 2
    /\ all_found # <<>>
    /\ \E i \in 2..Len(recvd[r]) :
         recvd[r][i].type = "Progress" /\ recvd[r][i - 1].type # "Progress"

\* ----------------------------------------------------------- escape_json_path

\* Every path of at most MaxPathLen characters.
EscapeInputs == UNION {[1..n -> Range(Chars)] : n \in 0..MaxPathLen}

EscapeInit == InitWith({IdleRun}) /\ arg \in EscapeInputs /\ res = "none"

\* escape_json_path(path).
ApplyEscape ==
  /\ res = "none"
  /\ res' = EscapeJsonPath(arg)
  /\ UNCHANGED <<unwritten, live, all_found, finalize_calls>>

EscapeSpec == EscapeInit /\ [][ApplyEscape]_vars

\* ---- C25

\* What the claim says becomes of one character.
EscapedChar(c) ==
  IF c = Backslash THEN <<Backslash, Backslash>>
  ELSE IF c = Quote THEN <<Backslash, Quote>>
  ELSE <<c>>

RECURSIVE EscapedCharwise(_)
EscapedCharwise(path) ==
  IF path = <<>> THEN <<>> ELSE EscapedChar(Head(path)) \o EscapedCharwise(Tail(path))

\* The number of occurrences of c in s.
Occurrences(s, c) == Cardinality({i \in 1..Len(s) : s[i] = c})

\* C25: the result of escape_json_path is the path with every backslash
\* turned into two backslashes, every double quote into a backslash and a
\* double quote, and every other character kept; the backslash put before a
\* quote is not doubled, so the result holds two backslashes per backslash
\* and one per quote of the path.
C25_EscapeCharwise ==
  res # "none" =>
    /\ res = EscapedCharwise(arg)
    /\ Occurrences(res, Backslash) = 2 * Occurrences(arg, Backslash) + Occurrences(arg, Quote)

\* A path with a quote, a backslash and a plain character has been escaped.
C25_Witness ==
  /\ res # "none"
  /\ arg = <<Quote, Backslash, "a">>

\* ---- C26

C27_ScannedFrame ==
  [][(Received("Scanned") /\ chan' = Tail(chan)) =>
       LET r == Head(chan).root_idx IN
         /\ roots'[r].scanned = roots[r].scanned + 1
         /\ roots'[r] = [roots[r] EXCEPT !.scanned = roots'[r].scanned]
         /\ \A q \in RootIdx : q # r => roots'[q] = roots[q]
         /\ UNCHANGED <<all_found, seen_found, recent>>]_vars

\* With two roots, a Scanned message was the last one handled for a root
\* that has a current path and a match, and the other root has counted too.
C27_Witness ==
  \E r \in RootIdx : \E q \in RootIdx :
    /\ q # r
    /\ recvd[r] # <<>>
    /\ recvd[r][Len(recvd[r])].type = "Scanned"
    /\ roots[r].current # <<>>
    /\ roots[r].found >= 1
    /\ roots[q].scanned >= 1

\* ---- C28

\* C28: handling a Done message of root r sets roots[r].done and clears its
\* current path, and a root that is done never changes again: it stays done,
\* its current path stays empty, and its scanned and found counters keep
\* their values.
C28_DoneIsFinal ==
  /\ [][(Received("Done") /\ chan' = Tail(chan)) =>
          LET r == Head(chan).root_idx IN
            roots'[r] = [roots[r] EXCEPT !.done = TRUE, !.current = <<>>]]_vars
  /\ [](\A r \in RootIdx : roots[r].done => roots[r].current = <<>>)
  /\ [][\A r \in RootIdx : roots[r].done => roots'[r] = roots[r]]_vars

\* A root is done and main has handled messages of another root after the
\* first root's Done.
C28_Witness ==
  \E r \in RootIdx : \E q \in RootIdx :
    /\ q # r
    /\ roots[r].done
    /\ roots[r].scanned >= 1
    /\ roots[q].done
    /\ roots[q].found >= 1
    /\ mainpc = "poll"

\* ---- C29

\* The bytes of a live writer that was created and then given exactly the
\* paths[i..], each once, in order.
RECURSIVE RecordedItems(_, _, _)
RecordedItems(paths, i, json) ==
  IF i > Len(paths) THEN <<>>
  ELSE (IF json
          THEN (IF i > 1 THEN <<",">> ELSE <<>>)
                 \o <<Newline, " ", " ", Quote>> \o EscapeJsonPath(paths[i]) \o <<Quote>>
          ELSE paths[i] \o <<Newline>>)
         \o RecordedItems(paths, i + 1, json)

RecordedBytes(paths, json) == (IF json THEN <<"[">> ELSE <<>>) \o RecordedItems(paths, 1, json)

\* A live writer is active and no write has failed.
WriterActive == live.kind # "none" /\ exit_kind = "running" /\ finalize_calls = 0

\* C29: while a live writer is active and no write has failed, what it has
\* written is exactly the opening of its format followed by the paths of
\* all_found, each once and in order: every newly deduplicated match has
\* been forwarded once, and no duplicate has been forwarded.
C29_WriterRecordsAllFound ==
  WriterActive =>
    live.file \o live.buf = RecordedBytes(all_found, live.kind = "json")

\* A JSON writer has recorded two matches and a duplicate Found was received.
C29_Witness ==
  /\ WriterActive
  /\ live.kind = "json"
  /\ Len(all_found) >= 2
  /\ DuplicateReceived

\* ---- C30

\* The number of results the traversal of root r has yielded to the closures.
Yielded(r) == Len(tree[r]) - Len(pending[r])

\* C30: every result of the traversal of a root, successful entry or error,
\* is counted exactly once: roots[r].scanned never exceeds the number of
\* results yielded so far, and once roots[r].done is true it equals the
\* number of results of the whole traversal, all of which have been yielded.
C30_EveryResultCountedOnce ==
  \A r \in RootIdx :
    /\ roots[r].scanned <= Yielded(r)
    /\ roots[r].done => (pending[r] = <<>> /\ roots[r].scanned = Len(tree[r]))

\* A root whose traversal yielded an error and a later result is done, with
\* both counted.
C30_Witness ==
  \E r \in RootIdx :
    /\ roots[r].done
    /\ \E i \in 1..Len(tree[r]) : ~tree[r][i].ok /\ i < Len(tree[r])
    /\ roots[r].scanned = Len(tree[r])

\* ---- C31

\* The paths carried by the Found messages the scanners have sent.
SentFoundPaths ==
  UNION {{sent[r][i].path : i \in {j \in 1..Len(sent[r]) : sent[r][j].type = "Found"}} :
           r \in RootIdx}

\* Every root is done, nothing is queued, and all_found holds exactly the
\* paths that were sent.
ScanComplete ==
  /\ AllDone
  /\ chan = <<>>
  /\ Range(all_found) = SentFoundPaths

QuietPolls ==
  {ev \in PollResults : ev.kind \notin {"poll_err", "read_err"} /\ ev \notin QuitKeys}

ScannedLeadsFound(seq) ==
  \A n \in 0..Len(seq) :
    CountType(SubSeq(seq, 1, n), "Found") <= CountType(SubSeq(seq, 1, n), "Scanned")

\* C33: for every root, found <= scanned.  Each worker enqueues the Scanned
\* message of an entry before its Found message and the channel keeps that
\* order, so in what a root's scanner has sent and in what main has received
\* from it the Scanned messages lead the Found messages.
C33_FoundAtMostScanned ==
  \A r \in RootIdx :
    /\ roots[r].found <= roots[r].scanned
    /\ ScannedLeadsFound(sent[r])
    /\ ScannedLeadsFound(recvd[r])

\* Every result counted so far for a root was a new match.
C33_Witness ==
  \E r \in RootIdx : roots[r].found >= 1 /\ roots[r].found = roots[r].scanned

\* ---- C34

\* The message names a root entry of the application state.
InRange(m) == m.root_idx \in 1..Len(roots)

\* C34: every message in the channel carries a root_idx within the root
\* entries of the application state, and it names the path its scanner was
\* started on: a scanner's messages all carry the index of its own root, and
\* its first message, which carries the root path itself, carries the path
\* of the entry it names.
C34_RootIdxInRange ==
  /\ \A i \in 1..Len(chan) : InRange(chan[i])
  /\ \A i \in 1..Len(chan) : \E r \in RootIdx : \E j \in 1..Len(sent[r]) : chan[i] = sent[r][j]
  /\ \A r \in RootIdx : \A j \in 1..Len(sent[r]) :
       /\ InRange(sent[r][j])
       /\ roots[sent[r][j].root_idx].path = roots[r].path
  /\ \A r \in RootIdx :
       sent[r] # <<>> =>
         /\ sent[r][1].type = "Progress"
         /\ sent[r][1].path = roots[sent[r][1].root_idx].path

\* Messages of two different roots are queued, the second root's first among
\* them.
C34_Witness ==
  /\ Len(roots) >= 2
  /\ Len(chan) >= 2
  /\ chan[1].root_idx = 2
  /\ chan[2].root_idx = 1

\* ---- C35

\* Sequence a is a prefix of sequence b.
PrefixOf(a, b) == Len(a) <= Len(b) /\ SubSeq(b, 1, Len(a)) = a

\* C35: aggregated state only grows: in every step each root's scanned and
\* found counters do not decrease, a done flag that is true stays true,
\* seen_found keeps every path it holds, and all_found before the step is a
\* prefix of all_found after it.
C35_StateOnlyGrows ==
  [][/\ \A r \in RootIdx :
          /\ roots'[r].scanned >= roots[r].scanned
          /\ roots'[r].found >= roots[r].found
          /\ roots[r].done => roots'[r].done
     /\ seen_found \subseteq seen_found'
     /\ PrefixOf(all_found, all_found')]_vars

\* Counters, flags and both collections have grown more than once.
C35_Witness ==
  /\ Len(all_found) >= 2
  /\ Cardinality(seen_found) >= 2
  /\ \E r \in RootIdx : roots[r].done /\ roots[r].scanned >= 2 /\ roots[r].found >= 1

\* ---- C36

\* C36: recent is the last min(12, len(all_found)) elements of all_found,
\* in the order they have in all_found.
C36_RecentIsTail ==
  /\ recent = LastN(all_found, Min(RecentCap, Len(all_found)))
  /\ \A i \in 1..Len(recent) : recent[i] = all_found[Len(all_found) - Len(recent) + i]

\* The oldest match has been evicted: recent starts at the second match.
C36_Witness ==
  /\ Len(all_found) = RecentCap + 1
  /\ recent[1] = all_found[2]
  /\ recent[RecentCap] = all_found[RecentCap + 1]

\* ---- C37

\* The poll step reads a quit key.
QuitRead == \E ev \in QuitKeys : MainPollOn(ev)

\* Runs with two roots and runs with several walker threads.
QuitInit == InitWith({OverlapRun, ErrorRun}) /\ NoCall

\* Main keeps running, and a quit key press is available to the input poll:
\* if the poll step is reached again and again, it eventually reads the key.
\* Nothing is assumed about the scanners.
QuitSpec ==
  /\ QuitInit
  /\ [][Next]_vars
  /\ WF_vars(MainStep)
  /\ SF_vars(QuitRead)

\* C37: when a quit key press is available to the input poll, the render
\* loop eventually exits: every drain phase ends, so the poll step is
\* reached again and again until the key is read.
C37_QuitEventuallyExits ==
  /\ <>LeftLoop
  /\ []<>(mainpc # "drain")

\* The key was read after messages had been handled, with more still queued
\* and a scanner not yet finished.
C37_Witness ==
  /\ mainpc = "restore"
  /\ chan # <<>>
  /\ \E r \in RootIdx : Len(recvd[r]) >= 2 /\ rpc[r] = "walk"

====
